---- MODULE Spec2Model ----
(***************************************************************************)
(* Model of the "resonance" demonstration library and its two entry        *)
(* points: src/src/resonance.c (resonance_add, resonance_version_string),  *)
(* src/include/resonance/resonance.h (version macros), src/src/main.c (the *)
(* demo application) and src/tests/entry.c (the smoke test).               *)
(*                                                                         *)
(* One behaviour of the model is one process run of one build of the       *)
(* library: Init picks the build configuration (which version macros the   *)
(* build pre-defines) and the program linked against the library (an       *)
(* arbitrary client making API calls, the demo app, or the smoke test).    *)
(***************************************************************************)
EXTENDS Integers, Sequences, FiniteSets, TLC

(* ------------------------------ bounds --------------------------------- *)
\* longest sequence of API calls the arbitrary client makes
MaxCalls == 2
\* largest value a build pre-defines for a version macro
MaxVer == 1

(* --------------------------- C environment ----------------------------- *)
INT_MAX == 2147483647
INT_MIN == -INT_MAX - 1
NULL == 0
EXIT_SUCCESS == 0
EXIT_FAILURE == 1

\* an optional value: absent, or present with value v
None == <<>>
Some(v) == <<v>>

\* outcome of a call: it returns v, or it does not return (a build that
\* traps on signed overflow)
Returns(v) == [trap |-> FALSE, val |-> v]
TRAP == [trap |-> TRUE, val |-> 0]

\* int arguments the client passes: both extremes and two small values
IntSamples == {INT_MIN, -3, 2, INT_MAX}
\* values the external blaze_int_multiply(5, 5) may hand back
BlazeSamples == {25, 0, -1}

\* the mathematical sum a + b is not an int (decided without forming it)
AddOverflows(a, b) ==
    \/ b > 0 /\ a > INT_MAX - b
    \/ b < 0 /\ a < INT_MIN - b

\* the mathematical difference a - b is not an int
SubOverflows(a, b) ==
    \/ b < 0 /\ a > INT_MAX + b
    \/ b > 0 /\ a < INT_MIN + b

\* a + b reduced modulo 2^32 to an int, for an overflowing sum: a + b - 2^32
\* above INT_MAX, a + b + 2^32 below INT_MIN, formed from in-range parts
WrapAdd(a, b) ==
    IF b > 0 THEN (a - INT_MAX - 1) + (b - INT_MAX - 1)
    ELSE (a + INT_MAX + 1) + (b + INT_MAX + 1)

\* a - b reduced modulo 2^32 to an int, for an overflowing difference
WrapSub(a, b) ==
    IF b < 0 THEN (a - INT_MAX - 1) - (b + INT_MAX + 1)
    ELSE (a + INT_MAX + 1) - (b - INT_MAX - 1)

(* ------------------------------ state ---------------------------------- *)
VARIABLES
    predef,       \* build: macro name -> None or the pre-defined value
    rodata,       \* static storage: address -> characters of the literal
    prog,         \* which program this process runs
    pc,           \* position of the program
    calls,        \* client: the calls made so far, with what they returned
    ok,           \* tests/entry.c: int ok
    addRes,       \* tests/entry.c: what resonance_add(2, 3) returned, if called
    verPtr,       \* tests/entry.c: what resonance_version_string() returned
    stdout,       \* lines written to standard output
    stderr,       \* lines written to standard error
    exit_status   \* exit status of the process, None while it runs

vars == <<predef, rodata, prog, pc, calls, ok, addRes, verPtr,
          stdout, stderr, exit_status>>

MacroNames == {"MAJOR", "MINOR", "PATCH"}

(* ------------------- include/resonance/resonance.h --------------------- *)
\* #ifndef M / #define M 0 / #endif : the default applies only when the
\* build did not define the macro itself
MacroValue(m) == IF predef[m] = None THEN 0 ELSE predef[m][1]

RESONANCE_VERSION_MAJOR == MacroValue("MAJOR")
RESONANCE_VERSION_MINOR == MacroValue("MINOR")
RESONANCE_VERSION_PATCH == MacroValue("PATCH")

(* -------------------------- src/resonance.c ---------------------------- *)
\* address of the string literal "0.0.0" in static storage
VersionLiteralAddr == 1
\* the characters of the literal, as written in the source
VersionLiteral == <<"0", ".", "0", ".", "0">>

\* int resonance_add(int a, int b) { return a + b; }
\* The set of outcomes of the call: the sum when it is an int; signed
\* overflow is undefined, a build either wraps or traps.
resonance_add_sub(a, b) ==
    IF ~SubOverflows(a, b) THEN {Returns(a - b)}
    ELSE {Returns(WrapSub(a, b)), TRAP}

resonance_add(a, b) ==
    IF ~AddOverflows(a, b) THEN {Returns(a + b)}
    ELSE {Returns(WrapAdd(a, b)), TRAP}

\* const char* resonance_version_string(void) { return "0.0.0"; }
resonance_version_string_null == NULL

resonance_version_string == VersionLiteralAddr

\* what a caller reads through a pointer returned by the library
ReadString(p) == rodata[p]

(* ------------------------------- Init ---------------------------------- *)
Init ==
    /\ predef \in [MacroNames -> {None} \cup {Some(v) : v \in 0..MaxVer}]
    /\ rodata = [a \in {VersionLiteralAddr} |-> VersionLiteral]
    /\ prog \in {"client", "demo", "test"}
    /\ pc = "start"
    /\ calls = <<>>
    /\ ok = 1
    /\ addRes = None
    /\ verPtr = None
    /\ stdout = <<>>
    /\ stderr = <<>>
    /\ exit_status = None

(* ------------------- an arbitrary client of the API -------------------- *)
\* one call resonance_add(a, b); a trapping overflow ends the process
ClientAdd ==
    /\ prog = "client" /\ pc = "start" /\ Len(calls) < MaxCalls
    /\ \E a \in IntSamples, b \in IntSamples :
         \E r \in resonance_add(a, b) :
            /\ calls' = Append(calls, [fn |-> "add", a |-> a, b |-> b, ret |-> r])
            /\ pc' = IF r.trap THEN "aborted" ELSE pc
    /\ UNCHANGED <<predef, rodata, prog, ok, addRes, verPtr,
                   stdout, stderr, exit_status>>

\* a faulty accessor that formats into a buffer it leaves changed
ClientVersion_clobber ==
    /\ prog = "client" /\ pc = "start" /\ Len(calls) < MaxCalls
    /\ LET p == resonance_version_string
       IN  /\ calls' = Append(calls, [fn |-> "version", ptr |-> p,
                                      str |-> IF p = NULL THEN <<>> ELSE ReadString(p)])
           /\ rodata' = [rodata EXCEPT ![VersionLiteralAddr] = <<"0", ".", "0", ".", "1">>]
    /\ UNCHANGED <<predef, prog, pc, ok, addRes, verPtr,
                   stdout, stderr, exit_status>>

\* one call resonance_version_string(); the client reads the string it got
ClientVersion ==
    /\ prog = "client" /\ pc = "start" /\ Len(calls) < MaxCalls
    /\ LET p == resonance_version_string
       IN  calls' = Append(calls, [fn |-> "version", ptr |-> p,
                                   str |-> IF p = NULL THEN <<>> ELSE ReadString(p)])
    /\ UNCHANGED <<predef, rodata, prog, pc, ok, addRes, verPtr,
                   stdout, stderr, exit_status>>

(* ----------------------------- src/main.c ------------------------------ *)
\* printf("%s", p): the characters at p; p == NULL is undefined, the C
\* library prints "(null)" or the process faults
PrintfString(p) ==
    IF p # NULL
    THEN {[crash |-> FALSE, text |-> ReadString(p)]}
    ELSE {[crash |-> FALSE, text |-> <<"(", "n", "u", "l", "l", ")">>],
          [crash |-> TRUE, text |-> <<>>]}

\* main.c:6
DemoHello ==
    /\ prog = "demo" /\ pc = "start"
    /\ stdout' = Append(stdout, <<"[resonance] Hello from demo app!">>)
    /\ pc' = "version"
    /\ UNCHANGED <<predef, rodata, prog, calls, ok, addRes, verPtr,
                   stderr, exit_status>>

\* main.c:7
DemoVersion ==
    /\ prog = "demo" /\ pc = "version"
    /\ \E o \in PrintfString(resonance_version_string) :
         IF o.crash
         THEN /\ pc' = "done"
              /\ exit_status' = Some(128 + 11)
              /\ UNCHANGED stdout
         ELSE /\ pc' = "multiply"
              /\ stdout' = Append(stdout, <<"[resonance] version = ", o.text>>)
              /\ UNCHANGED exit_status
    /\ UNCHANGED <<predef, rodata, prog, calls, ok, addRes, verPtr, stderr>>

\* main.c:9, blaze_int_multiply is an external library: any int comes back
DemoMultiply ==
    /\ prog = "demo" /\ pc = "multiply"
    /\ \E m \in BlazeSamples :
         stdout' = Append(stdout, <<"[blaze] multiply (5, 5) = ", m>>)
    /\ pc' = "return"
    /\ UNCHANGED <<predef, rodata, prog, calls, ok, addRes, verPtr,
                   stderr, exit_status>>

\* a main that hands back something other than 0
DemoReturn_nonzero ==
    /\ prog = "demo" /\ pc = "return"
    /\ pc' = "done"
    /\ exit_status' = Some(Len(stdout))
    /\ UNCHANGED <<predef, rodata, prog, calls, ok, addRes, verPtr,
                   stdout, stderr>>

\* main.c:10
DemoReturn ==
    /\ prog = "demo" /\ pc = "return"
    /\ pc' = "done"
    /\ exit_status' = Some(0)
    /\ UNCHANGED <<predef, rodata, prog, calls, ok, addRes, verPtr,
                   stdout, stderr>>

(* --------------------------- tests/entry.c ----------------------------- *)
AddMessage == <<"add(2,3) != 5">>
VersionMessage == <<"version_string() returned NULL">>
PassMessage == <<"basic test passed">>

\* entry.c:8-11
TestAdd ==
    /\ prog = "test" /\ pc = "start"
    /\ \E r \in resonance_add(2, 3) :
         IF r.trap
         THEN /\ pc' = "done"
              /\ exit_status' = Some(128 + 6)
              /\ UNCHANGED <<ok, addRes, stderr>>
         ELSE /\ addRes' = Some(r.val)
              /\ pc' = "version"
              /\ UNCHANGED exit_status
              /\ IF r.val # 5
                 THEN /\ stderr' = Append(stderr, AddMessage)
                      /\ ok' = 0
                 ELSE UNCHANGED <<ok, stderr>>
    /\ UNCHANGED <<predef, rodata, prog, calls, verPtr, stdout>>

\* entry.c:13-16
TestVersion ==
    /\ prog = "test" /\ pc = "version"
    /\ verPtr' = Some(resonance_version_string)
    /\ IF resonance_version_string = NULL
       THEN /\ stderr' = Append(stderr, VersionMessage)
            /\ ok' = 0
       ELSE UNCHANGED <<ok, stderr>>
    /\ pc' = "finish"
    /\ UNCHANGED <<predef, rodata, prog, calls, addRes, stdout, exit_status>>

\* a test whose final condition is inverted: if (ok) return EXIT_FAILURE
TestFinish_inverted ==
    /\ prog = "test" /\ pc = "finish"
    /\ IF ok # 0
       THEN /\ exit_status' = Some(EXIT_FAILURE)
            /\ UNCHANGED stdout
       ELSE /\ stdout' = Append(stdout, PassMessage)
            /\ exit_status' = Some(EXIT_SUCCESS)
    /\ pc' = "done"
    /\ UNCHANGED <<predef, rodata, prog, calls, ok, addRes, verPtr, stderr>>

\* entry.c:18-23
TestFinish ==
    /\ prog = "test" /\ pc = "finish"
    /\ IF ok = 0
       THEN /\ exit_status' = Some(EXIT_FAILURE)
            /\ UNCHANGED stdout
       ELSE /\ stdout' = Append(stdout, PassMessage)
            /\ exit_status' = Some(EXIT_SUCCESS)
    /\ pc' = "done"
    /\ UNCHANGED <<predef, rodata, prog, calls, ok, addRes, verPtr, stderr>>

(* --------------------------- specification ----------------------------- *)
Next ==
    \/ ClientAdd
    \/ ClientVersion
    \/ DemoHello
    \/ DemoVersion
    \/ DemoMultiply
    \/ DemoReturn
    \/ TestAdd
    \/ TestVersion
    \/ TestFinish

Spec == Init /\ [][Next]_vars

\* a started process is scheduled until it ends
FairSpec == Spec /\ WF_vars(Next)

(* ------------------------------ properties ----------------------------- *)
VersionCalls == {i \in 1..Len(calls) : calls[i].fn = "version"}
AddCalls == {i \in 1..Len(calls) : calls[i].fn = "add"}

\* C4: resonance_version_string never returns NULL: every call the client
\* made, after whatever calls came before it, and the call of the smoke
\* test, returned a non-null pointer.
VersionStringNeverNull ==
    /\ \A i \in VersionCalls : calls[i].ptr # NULL
    /\ verPtr # None => verPtr[1] # NULL

\* a version call made after an earlier call to the library
VersionCalledAfterPriorCall ==
    \E i \in VersionCalls : i > 1

\* C5: resonance_add(a, b) returns the mathematical sum a + b whenever that
\* sum is an int; add(2, 3) in the smoke test is 5.
AddReturnsSum ==
    /\ \A i \in AddCalls :
          ~AddOverflows(calls[i].a, calls[i].b)
             => /\ ~calls[i].ret.trap
                /\ calls[i].ret.val = calls[i].a + calls[i].b
    /\ addRes # None => addRes = Some(5)

\* a call with two non-zero arguments of opposite sign whose sum is an int
AddCalledInRange ==
    \E i \in AddCalls :
       /\ calls[i].a = -3 /\ calls[i].b = INT_MAX
       /\ calls[i].ret = Returns(2147483644)

\* C6: the demonstration entry point always runs to completion and exits
\* with status 0, whatever blaze_int_multiply handed back.
DemoRunsToExitZero ==
    (prog = "demo") ~> (pc = "done" /\ exit_status = Some(0))

\* the demo ended after printing its three lines
DemoEnded ==
    /\ prog = "demo" /\ pc = "done" /\ exit_status = Some(0)
    /\ Len(stdout) = 3
    /\ stdout[3] = <<"[blaze] multiply (5, 5) = ", -1>>

VersionStringMatchesMacros ==
    LET RECURSIVE Decimal(_)
        Decimal(n) ==
            LET digit == <<"0", "1", "2", "3", "4", "5", "6", "7", "8", "9">>
            IN  IF n < 10 THEN <<digit[n + 1]>>
                ELSE Decimal(n \div 10) \o <<digit[(n % 10) + 1]>>
        expected == Decimal(RESONANCE_VERSION_MAJOR) \o <<".">>
                    \o Decimal(RESONANCE_VERSION_MINOR) \o <<".">>
                    \o Decimal(RESONANCE_VERSION_PATCH)
    IN  \A i \in VersionCalls : calls[i].str = expected

====
